---- MODULE Spec2Model ----
(***************************************************************************)
(* Attendance bot: the per-user conversation state machine (main.py), the  *)
(* work handlers (handlers/work.py), the break handlers with their quota,  *)
(* time-window and warning-job logic (handlers/breaks.py), and the         *)
(* websocket registry of the monitoring page (main.py).                    *)
(*                                                                         *)
(* Time is whole seconds since midnight of day 0.  One handler call is one *)
(* step; the clock, the job queue and the websocket tasks move between     *)
(* handler calls.                                                          *)
(***************************************************************************)
EXTENDS Integers, Sequences, FiniteSets, TLC

VARIABLES
    now,         \* the wall clock read by get_current_time()
    user_data,   \* context.user_data of each user
    conv,        \* ConversationHandler state of each user
    jobs,        \* context.job_queue: the pending run_once jobs, oldest first
    websockets,  \* the global dict user_id -> connection
    conns,       \* every websocket_handler task: its user and its state
    out,         \* what the last step sent: reply, report fields, ws frames
    inflight,    \* break-start calls suspended in "await send_ws_command"
    page         \* the last frame each user's monitoring page received

vars == <<now, user_data, conv, jobs, websockets, conns, out, inflight, page>>

----------------------------------------------------------------------------
(* Bounds of the model *)

MaxTicks == 12
MaxConns == 1
MaxInFlight == 2
MaxWsConns == 3

Users == {1}
ConnIds == 1..MaxConns
Slots == 1..MaxInFlight
WsUsers == {1, 2}
WsConnIds == 1..MaxWsConns

----------------------------------------------------------------------------
(* Program constants *)

MAX_TOILET_BREAKS == 6
TOILET_BREAK_LIMIT_SECONDS == 10 * 60
MAX_EAT_BREAKS == 1
MAX_REST_BREAKS == 1
WORK_START_HOUR == 11
WORK_START_MINUTE == 0

SELECTING_ACTION == 0
ON_BREAK == 1
CONFIRM_OFF_WORK == 2
END == -1

----------------------------------------------------------------------------
(* Clock *)

DaySeconds == 24 * 3600

HMS(h, m, s) == h * 3600 + m * 60 + s

\* now.replace(hour=h, minute=m, second=0, microsecond=0): same calendar day
Replace(t, h, m) == (t \div DaySeconds) * DaySeconds + HMS(h, m, 0)

\* The instants of a day the clock passes through, in order; the clock
\* starts at the first and goes on into the following days.
DayPointSeq ==
    << HMS(10, 55, 0), HMS(11, 0, 0), HMS(11, 5, 0), HMS(11, 6, 0),
       HMS(16, 14, 59), HMS(16, 15, 0), HMS(17, 45, 0), HMS(17, 45, 1),
       HMS(21, 59, 59), HMS(22, 0, 0), HMS(22, 30, 0), HMS(22, 30, 1) >>

PointAt(k) ==
    (k \div Len(DayPointSeq)) * DaySeconds + DayPointSeq[(k % Len(DayPointSeq)) + 1]

NoTime == -1

----------------------------------------------------------------------------
(* Session data *)

NoType == "none"
BreakTypes == {"toilet", "eat", "rest"}

\* An empty context.user_data: every .get() gives its default.
EmptyUserData ==
    [ work_started |-> FALSE, work_start_time |-> NoTime,
      on_break |-> FALSE, break_start_time |-> NoTime,
      current_break_type |-> NoType,
      toilet_breaks_today |-> 0, eat_breaks_today |-> 0,
      rest_breaks_today |-> 0 ]

NoConn == 0
FreeConn == [user |-> 0, st |-> "free"]

\* No warning armed.
NoDelay == -1

\* A slot with no handler call suspended in it.
Idle == [user |-> 0, type |-> NoType, taken |-> 0]

\* What a step sends out: the command handled and for whom, the branch
\* taken, the fields of its report (break type, lateness, duration), the
\* delay of the warning it armed, the number of jobs it removed (the count
\* _remove_previous_job logs) and the frames delivered to the page.
\* effects lists the side effects of a break start or an end of break in
\* the order of the statements that make them.
\* NoOut is the output of a step that sends nothing.
NoOut ==
    [ cmd |-> "none", user |-> 0, result |-> "none", btype |-> NoType,
      late_by |-> 0, duration |-> 0, delay |-> NoDelay, removed |-> 0,
      sent |-> <<>>, effects |-> <<>> ]

Reply(c, u, r) == [NoOut EXCEPT !.cmd = c, !.user = u, !.result = r]

----------------------------------------------------------------------------
(* Helpers of handlers/breaks.py *)

\* Mutant: RESUME_MONITORING is never sent.
SendWsCommand_NoResume(u, command) ==
    IF websockets[u] # NoConn /\ conns[websockets[u]].st = "open"
       /\ command # "RESUME_MONITORING"
    THEN <<command>>
    ELSE <<>>

\* send_ws_command: the frames that reach the page.  The send is skipped
\* when the user has no entry and raises (caught, logged) on a closed socket.
SendWsCommand(u, command) ==
    IF websockets[u] # NoConn /\ conns[websockets[u]].st = "open"
    THEN <<command>>
    ELSE <<>>

\* Mutant: a job whose time has come is left in the queue.
RemovePreviousJob_KeepsDue(js, u) ==
    SelectSeq(js, LAMBDA j : j.name # u \/ j.fire_at <= now)

\* _remove_previous_job: schedule_removal() of every job named
\* break_warning_<user_id>.
RemovePreviousJob(js, u) == SelectSeq(js, LAMBDA j : j.name # u)

\* Mutant: the new job is added without removing the old ones.
ScheduleWarning_NoRemoval(js, u, delay, message) ==
    Append(js, [name |-> u, fire_at |-> now + delay, message |-> message])

\* schedule_warning: remove the jobs of that name, then run_once.
ScheduleWarning(js, u, delay, message) ==
    Append(RemovePreviousJob(js, u),
           [name |-> u, fire_at |-> now + delay, message |-> message])

\* Mutant: the test of on_break is missing.
ValidateBreakStart_NoBreakTest(ud) ==
    IF ~ud.work_started THEN "not_working" ELSE "ok"

\* Mutant: the test of work_started is missing.
ValidateBreakStart_NoWorkTest(ud) ==
    IF ud.on_break THEN "on_break" ELSE "ok"

\* _validate_break_start
ValidateBreakStart(ud) ==
    IF ~ud.work_started THEN "not_working"
    ELSE IF ud.on_break THEN "on_break"
    ELSE "ok"

\* Mutant: the quota is never tested.
QuotaReached_NoTest(taken, max) == FALSE

\* Mutant: the quota test is off by one.
QuotaReached_OffByOne(taken, max) == taken > max

\* the quota tests: taken >= MAX_..._BREAKS
QuotaReached(taken, max) == taken >= max

\* start_eat_break: start_time <= now <= end_time, the window of now's day
EatWindowStart(t) == Replace(t, 22, 0)
EatWindowEnd(t) == EatWindowStart(t) + 30 * 60
\* Mutant: the window is open at its end.
InEatWindow_OpenEnd(t) == EatWindowStart(t) <= t /\ t < EatWindowEnd(t)

InEatWindow(t) == EatWindowStart(t) <= t /\ t <= EatWindowEnd(t)

\* start_rest_break: start_time <= now <= end_time
RestWindowStart(t) == Replace(t, 16, 15)
RestWindowEnd(t) == RestWindowStart(t) + (1 * 3600 + 30 * 60)
InRestWindow(t) == RestWindowStart(t) <= t /\ t <= RestWindowEnd(t)

\* The counter of a break type, its value and its quota.
CounterOf(type) ==
    IF type = "toilet" THEN "toilet_breaks_today"
    ELSE IF type = "eat" THEN "eat_breaks_today"
    ELSE "rest_breaks_today"

Taken(ud, type) ==
    IF type = "toilet" THEN ud.toilet_breaks_today
    ELSE IF type = "eat" THEN ud.eat_breaks_today
    ELSE ud.rest_breaks_today

MaxCount(type) ==
    IF type = "toilet" THEN MAX_TOILET_BREAKS
    ELSE IF type = "eat" THEN MAX_EAT_BREAKS
    ELSE MAX_REST_BREAKS

\* Mutant: the warning is armed only when its delay exceeds a minute.
WarningArmed_DelayOverMinute(remaining_seconds) == remaining_seconds - 60 > 60

\* start_eat_break, start_rest_break: if remaining_seconds > 60
WarningArmed(remaining_seconds) == remaining_seconds > 60

\* The statements of a successful break start, in their order: the tests,
\* send_ws_command, the writes of user_data, log_activity, schedule_warning
\* (eat and rest: only with more than a minute left), reply_text.
BreakStartEffects(armed) ==
    <<"check", "signal", "state", "log">>
    \o (IF armed THEN <<"schedule">> ELSE <<>>)
    \o <<"report">>

\* The statements of end_break, in their order: send_ws_command,
\* _remove_previous_job, the test of the break fields, and when a break is
\* recorded log_activity, the writes of user_data, reply_text.
EndBreakEffects(recorded) ==
    <<"signal", "schedule", "check">>
    \o (IF recorded THEN <<"log", "state", "report">> ELSE <<>>)

\* Mutant: current_break_type is not written.
BreakStarted_NoType(ud, type, counter, taken) ==
    [ud EXCEPT !.on_break = TRUE,
               !.break_start_time = now,
               ![counter] = taken + 1]

\* The four writes of a successful break start.
BreakStarted(ud, type, counter, taken) ==
    [ud EXCEPT !.on_break = TRUE,
               !.break_start_time = now,
               !.current_break_type = type,
               ![counter] = taken + 1]

----------------------------------------------------------------------------
(* Helpers of handlers/work.py *)

\* start_work: official_start_time and the lateness passed to format_duration
OfficialStartTime(t) == Replace(t, WORK_START_HOUR, WORK_START_MINUTE)

\* Mutant: lateness starts at the official start time itself.
IsLate_AtStart(t) == t >= OfficialStartTime(t)

IsLate(t) == t > OfficialStartTime(t)
LateBy(t) == t - OfficialStartTime(t)

\* Mutant: the test of on_break is missing.
OffWorkResult_NoBreakTest(ud) ==
    IF ~ud.work_started THEN "not_started" ELSE "confirm"

\* off_work: the two tests before the confirmation question
OffWorkResult(ud) ==
    IF ~ud.work_started THEN "not_started"
    ELSE IF ud.on_break THEN "still_on_break"
    ELSE "confirm"

\* Mutant: only the work flag and start time are reset.
ClearedUserData_WorkOnly(ud) ==
    [ud EXCEPT !.work_started = FALSE, !.work_start_time = NoTime]

\* confirm_off_work: context.user_data.clear()
ClearedUserData(ud) == EmptyUserData

----------------------------------------------------------------------------
(* Initial state: no session, no conversation, no job, no connection *)

Init ==
    /\ now = PointAt(0)
    /\ user_data = [u \in Users |-> EmptyUserData]
    /\ conv = [u \in Users |-> END]
    /\ jobs = <<>>
    /\ websockets = [u \in Users |-> NoConn]
    /\ conns = [c \in ConnIds |-> FreeConn]
    /\ out = NoOut
    /\ inflight = [s \in Slots |-> Idle]
    /\ page = [u \in Users |-> "none"]

----------------------------------------------------------------------------
(* Conversation handlers.  A handler runs only in the conversation state   *)
(* it is registered under; its return value is the next state.             *)

\* /start: entry point of the conversation and its fallback in every state.
Start(u) ==
    /\ conv' = [conv EXCEPT ![u] = SELECTING_ACTION]
    /\ out' = NoOut
    /\ UNCHANGED <<now, user_data, jobs, websockets, conns>>

\* Mutant: the test of work_started is missing.
StartWork_NoStartedTest(u) ==
    /\ conv[u] = SELECTING_ACTION
    /\ user_data' = [user_data EXCEPT ![u].work_started = TRUE,
                                       ![u].work_start_time = now]
    /\ out' = IF IsLate(now)
              THEN [Reply("start_work", u, "late")
                       EXCEPT !.late_by = LateBy(now)]
              ELSE Reply("start_work", u, "on_time")
    /\ conv' = [conv EXCEPT ![u] = SELECTING_ACTION]
    /\ UNCHANGED <<now, jobs, websockets, conns>>

StartWork(u) ==
    /\ conv[u] = SELECTING_ACTION
    /\ IF user_data[u].work_started
       THEN /\ out' = Reply("start_work", u, "already_started")
            /\ UNCHANGED user_data
       ELSE /\ user_data' = [user_data EXCEPT ![u].work_started = TRUE,
                                              ![u].work_start_time = now]
            /\ out' = IF IsLate(now)
                      THEN [Reply("start_work", u, "late")
                               EXCEPT !.late_by = LateBy(now)]
                      ELSE Reply("start_work", u, "on_time")
    /\ conv' = [conv EXCEPT ![u] = SELECTING_ACTION]
    /\ UNCHANGED <<now, jobs, websockets, conns>>

OffWork(u) ==
    /\ conv[u] = SELECTING_ACTION
    /\ LET r == OffWorkResult(user_data[u])
       IN  /\ out' = Reply("off_work", u, r)
           /\ conv' = [conv EXCEPT ![u] =
                          IF r = "not_started" THEN SELECTING_ACTION
                          ELSE IF r = "still_on_break" THEN ON_BREAK
                          ELSE CONFIRM_OFF_WORK]
    /\ UNCHANGED <<now, user_data, jobs, websockets, conns>>

\* Mutant: the send to a closed socket is not caught and ends the handler.
ConfirmOffWork_SendRaises(u) ==
    /\ conv[u] = CONFIRM_OFF_WORK
    /\ LET c == websockets[u]
           live == c # NoConn /\ conns[c].st = "open"
       IN  IF c # NoConn /\ ~live
           THEN /\ out' = Reply("confirm", u, "error")
                /\ UNCHANGED <<user_data, conv, conns>>
           ELSE /\ conns' = IF live THEN [conns EXCEPT ![c].st = "closed"]
                            ELSE conns
                /\ out' = [Reply("confirm", u, "checked_out")
                              EXCEPT !.duration =
                                         now - user_data[u].work_start_time,
                                     !.sent = IF live
                                              THEN <<"STOP_MONITORING">>
                                              ELSE <<>>]
                /\ user_data' = [user_data EXCEPT ![u] = EmptyUserData]
                /\ conv' = [conv EXCEPT ![u] = END]
    /\ UNCHANGED <<now, jobs, websockets>>

ConfirmOffWork(u) ==
    /\ conv[u] = CONFIRM_OFF_WORK
    /\ LET c == websockets[u]
           live == c # NoConn /\ conns[c].st = "open"
       IN  /\ conns' = IF live THEN [conns EXCEPT ![c].st = "closed"] ELSE conns
           /\ out' = [Reply("confirm", u, "checked_out")
                         EXCEPT !.duration = now - user_data[u].work_start_time,
                                !.sent = IF live THEN <<"STOP_MONITORING">>
                                         ELSE <<>>]
    /\ user_data' = [user_data EXCEPT ![u] = ClearedUserData(user_data[u])]
    /\ conv' = [conv EXCEPT ![u] = END]
    /\ UNCHANGED <<now, jobs, websockets>>

\* Mutant: the cancelled check-out resets the session.
CancelOffWork_ClearsSession(u) ==
    /\ conv[u] = CONFIRM_OFF_WORK
    /\ out' = Reply("cancel", u, "cancelled")
    /\ conv' = [conv EXCEPT ![u] = SELECTING_ACTION]
    /\ user_data' = [user_data EXCEPT ![u] = EmptyUserData]
    /\ UNCHANGED <<now, jobs, websockets, conns>>

CancelOffWork(u) ==
    /\ conv[u] = CONFIRM_OFF_WORK
    /\ out' = Reply("cancel", u, "cancelled")
    /\ conv' = [conv EXCEPT ![u] = SELECTING_ACTION]
    /\ UNCHANGED <<now, user_data, jobs, websockets, conns>>

\* A break start that is denied: a reply, nothing else.
Denied(u, cmd, why) ==
    /\ out' = Reply(cmd, u, why)
    /\ conv' = [conv EXCEPT ![u] = SELECTING_ACTION]
    /\ UNCHANGED <<now, user_data, jobs, websockets, conns>>

StartToiletBreak(u) ==
    /\ conv[u] = SELECTING_ACTION
    /\ LET ud == user_data[u]
           toilet_breaks_taken == ud.toilet_breaks_today
       IN  IF ValidateBreakStart(ud) # "ok"
           THEN Denied(u, "toilet", ValidateBreakStart(ud))
           ELSE IF QuotaReached(toilet_breaks_taken, MAX_TOILET_BREAKS)
           THEN Denied(u, "toilet", "quota")
           ELSE /\ user_data' = [user_data EXCEPT ![u] =
                      BreakStarted(ud, "toilet", "toilet_breaks_today",
                                   toilet_breaks_taken)]
                /\ jobs' = ScheduleWarning(jobs, u,
                              TOILET_BREAK_LIMIT_SECONDS - 60, "toilet")
                /\ out' = [Reply("toilet", u, "started")
                              EXCEPT !.btype = "toilet",
                                     !.delay = TOILET_BREAK_LIMIT_SECONDS - 60,
                                     !.effects = BreakStartEffects(TRUE),
                                     !.sent = SendWsCommand(u, "PAUSE_MONITORING")]
                /\ conv' = [conv EXCEPT ![u] = ON_BREAK]
                /\ UNCHANGED <<now, websockets, conns>>

StartEatBreak(u) ==
    /\ conv[u] = SELECTING_ACTION
    /\ LET ud == user_data[u]
           eat_breaks_taken == ud.eat_breaks_today
           remaining_seconds == EatWindowEnd(now) - now
       IN  IF ValidateBreakStart(ud) # "ok"
           THEN Denied(u, "eat", ValidateBreakStart(ud))
           ELSE IF QuotaReached(eat_breaks_taken, MAX_EAT_BREAKS)
           THEN Denied(u, "eat", "quota")
           ELSE IF ~InEatWindow(now)
           THEN Denied(u, "eat", "window")
           ELSE /\ user_data' = [user_data EXCEPT ![u] =
                      BreakStarted(ud, "eat", "eat_breaks_today",
                                   eat_breaks_taken)]
                /\ jobs' = IF WarningArmed(remaining_seconds)
                           THEN ScheduleWarning(jobs, u,
                                                remaining_seconds - 60, "eat")
                           ELSE jobs
                /\ out' = [Reply("eat", u, "started")
                              EXCEPT !.btype = "eat",
                                     !.delay = IF WarningArmed(remaining_seconds)
                                               THEN remaining_seconds - 60
                                               ELSE NoDelay,
                                     !.effects = BreakStartEffects(
                                                    WarningArmed(remaining_seconds)),
                                     !.sent = SendWsCommand(u, "PAUSE_MONITORING")]
                /\ conv' = [conv EXCEPT ![u] = ON_BREAK]
                /\ UNCHANGED <<now, websockets, conns>>

StartRestBreak(u) ==
    /\ conv[u] = SELECTING_ACTION
    /\ LET ud == user_data[u]
           rest_breaks_taken == ud.rest_breaks_today
           remaining_seconds == RestWindowEnd(now) - now
       IN  IF ValidateBreakStart(ud) # "ok"
           THEN Denied(u, "rest", ValidateBreakStart(ud))
           ELSE IF QuotaReached(rest_breaks_taken, MAX_REST_BREAKS)
           THEN Denied(u, "rest", "quota")
           ELSE IF ~InRestWindow(now)
           THEN Denied(u, "rest", "window")
           ELSE /\ user_data' = [user_data EXCEPT ![u] =
                      BreakStarted(ud, "rest", "rest_breaks_today",
                                   rest_breaks_taken)]
                /\ jobs' = IF WarningArmed(remaining_seconds)
                           THEN ScheduleWarning(jobs, u,
                                                remaining_seconds - 60, "rest")
                           ELSE jobs
                /\ out' = [Reply("rest", u, "started")
                              EXCEPT !.btype = "rest",
                                     !.delay = IF WarningArmed(remaining_seconds)
                                               THEN remaining_seconds - 60
                                               ELSE NoDelay,
                                     !.effects = BreakStartEffects(
                                                    WarningArmed(remaining_seconds)),
                                     !.sent = SendWsCommand(u, "PAUSE_MONITORING")]
                /\ conv' = [conv EXCEPT ![u] = ON_BREAK]
                /\ UNCHANGED <<now, websockets, conns>>

\* end_break: late_message is the empty string on every path of the source.
LateMessage(break_type, duration_seconds) == 0

EndBreak(u) ==
    /\ conv[u] = ON_BREAK
    /\ LET ud == user_data[u]
           break_start_time == ud.break_start_time
           break_type == ud.current_break_type
           sent == SendWsCommand(u, "RESUME_MONITORING")
           removed == Len(jobs) - Len(RemovePreviousJob(jobs, u))
       IN  /\ jobs' = RemovePreviousJob(jobs, u)
           /\ IF break_start_time = NoTime \/ break_type = NoType
              THEN /\ out' = [Reply("end_break", u, "no_break")
                                 EXCEPT !.removed = removed,
                                        !.effects = EndBreakEffects(FALSE),
                                        !.sent = sent]
                   /\ UNCHANGED user_data
              ELSE /\ out' = [Reply("end_break", u, "ended")
                                 EXCEPT !.btype = break_type,
                                        !.duration = now - break_start_time,
                                        !.late_by = LateMessage(break_type,
                                                      now - break_start_time),
                                        !.removed = removed,
                                        !.effects = EndBreakEffects(TRUE),
                                        !.sent = sent]
                   /\ user_data' = [user_data EXCEPT
                                       ![u].on_break = FALSE,
                                       ![u].break_start_time = NoTime,
                                       ![u].current_break_type = NoType]
    /\ conv' = [conv EXCEPT ![u] = SELECTING_ACTION]
    /\ UNCHANGED <<now, websockets, conns>>

----------------------------------------------------------------------------
(* The application built in main.py handles one update at a time and each  *)
(* handler runs to its return: no call is left suspended, and the page's   *)
(* last frame is followed only where the frames are studied.               *)

Sequential(A) == A /\ UNCHANGED <<inflight, page>>

----------------------------------------------------------------------------
(* The job queue and the clock *)

\* send_warning_callback: a due run_once job runs once and is gone.
SendWarningCallback(i) ==
    /\ i \in 1..Len(jobs)
    /\ jobs[i].fire_at <= now
    /\ out' = [Reply("warning", jobs[i].name, "sent")
                  EXCEPT !.btype = jobs[i].message]
    /\ jobs' = [k \in 1..(Len(jobs) - 1) |->
                   IF k < i THEN jobs[k] ELSE jobs[k + 1]]
    /\ UNCHANGED <<now, user_data, conv, websockets, conns>>

Tick ==
    /\ \E k \in 0..(MaxTicks - 1) :
          /\ now = PointAt(k)
          /\ now' = PointAt(k + 1)
    /\ out' = NoOut
    /\ UNCHANGED <<user_data, conv, jobs, websockets, conns>>

----------------------------------------------------------------------------
(* websocket_handler of main.py, one task per connection *)

\* ws.prepare, then websockets[user_id] = ws: the new socket is the first
\* free one of ids, whatever entry the user already has.
WsConnectIn(ids, u) ==
    /\ \E c \in ids :
          /\ conns[c].st = "free"
          /\ \A c2 \in ids : conns[c2].st = "free" => c <= c2
          /\ conns' = [conns EXCEPT ![c] = [user |-> u, st |-> "open"]]
          /\ websockets' = [websockets EXCEPT ![u] = c]
    /\ out' = NoOut
    /\ UNCHANGED <<now, user_data, conv, jobs>>

WsConnect(u) == WsConnectIn(ConnIds, u)

\* Mutant: an IDLE frame is taken for the start of a break.
WsReceive_IdleMarksBreak(c, status) ==
    /\ conns[c].st = "open"
    /\ out' = Reply("ws_frame", conns[c].user, status)
    /\ user_data' = IF status = "IDLE"
                    THEN [user_data EXCEPT ![conns[c].user].on_break = TRUE]
                    ELSE user_data
    /\ UNCHANGED <<now, conv, jobs, websockets, conns>>

\* one turn of "async for msg in ws": the frame is logged
WsReceive(c, status) ==
    /\ conns[c].st = "open"
    /\ out' = Reply("ws_frame", conns[c].user, status)
    /\ UNCHANGED <<now, user_data, conv, jobs, websockets, conns>>

\* the page goes away: the socket is closed, the task has not yet noticed
WsPeerClose(c) ==
    /\ conns[c].st = "open"
    /\ conns' = [conns EXCEPT ![c].st = "closed"]
    /\ out' = NoOut
    /\ UNCHANGED <<now, user_data, conv, jobs, websockets>>

\* the loop ends; finally: if user_id in websockets: del websockets[user_id]
WsHandlerExit(c) ==
    /\ conns[c].st = "closed"
    /\ websockets' = [websockets EXCEPT ![conns[c].user] = NoConn]
    /\ conns' = [conns EXCEPT ![c] = FreeConn]
    /\ out' = NoOut
    /\ UNCHANGED <<now, user_data, conv, jobs>>

Frames == {"ACTIVE", "IDLE", "OTHER"}

----------------------------------------------------------------------------
(* The warning scheduler on its own: schedule_warning and                  *)
(* _remove_previous_job called in any order for two users, with the job    *)
(* queue and the clock running.                                            *)

JobUsers == {1, 2}

EatWarningDelay == 30 * 60 - 60

\* schedule_warning(update, context, delay, message)
Arm(u, delay, message) ==
    /\ jobs' = ScheduleWarning(jobs, u, delay, message)
    /\ out' = [Reply("arm", u, "armed")
                  EXCEPT !.btype = message,
                         !.delay = delay,
                         !.removed = Len(jobs) - Len(RemovePreviousJob(jobs, u))]
    /\ UNCHANGED <<now, user_data, conv, websockets, conns>>

\* _remove_previous_job(user_id, context)
Disarm(u) ==
    /\ jobs' = RemovePreviousJob(jobs, u)
    /\ out' = [Reply("disarm", u, "disarmed")
                  EXCEPT !.removed = Len(jobs) - Len(RemovePreviousJob(jobs, u))]
    /\ UNCHANGED <<now, user_data, conv, websockets, conns>>

NextScheduler ==
    \/ \E u \in JobUsers :Sequential(Arm(u, TOILET_BREAK_LIMIT_SECONDS - 60, "toilet"))
    \/ \E u \in JobUsers : Sequential(Arm(u, EatWarningDelay, "eat"))
    \/ \E u \in JobUsers : Sequential(Disarm(u))
    \/ \E i \in 1..Len(jobs) : Sequential(SendWarningCallback(i))
    \/ Sequential(Tick)

SpecScheduler == Init /\ [][NextScheduler]_vars

----------------------------------------------------------------------------

Next ==
    \/ \E u \in Users : Sequential(Start(u))
    \/ \E u \in Users : Sequential(StartWork(u))
    \/ \E u \in Users : Sequential(OffWork(u))
    \/ \E u \in Users : Sequential(ConfirmOffWork(u))
    \/ \E u \in Users : Sequential(CancelOffWork(u))
    \/ \E u \in Users : Sequential(StartToiletBreak(u))
    \/ \E u \in Users : Sequential(StartEatBreak(u))
    \/ \E u \in Users : Sequential(StartRestBreak(u))
    \/ \E u \in Users : Sequential(EndBreak(u))
    \/ \E i \in 1..Len(jobs) : Sequential(SendWarningCallback(i))
    \/ Sequential(Tick)
    \/ \E u \in Users : Sequential(WsConnect(u))
    \/ \E c \in ConnIds, f \in Frames : Sequential(WsReceive(c, f))
    \/ \E c \in ConnIds : Sequential(WsPeerClose(c))
    \/ \E c \in ConnIds : Sequential(WsHandlerExit(c))

Spec == Init /\ [][Next]_vars

----------------------------------------------------------------------------
(* The warning delays: the session handlers at instants around the last   *)
(* two minutes of the eat and rest windows.  The clock stands still: each  *)
(* behaviour is the commands handled at one instant.                       *)

WarningInstants ==
    { HMS(16, 15, 0), HMS(17, 42, 59), HMS(17, 43, 0), HMS(17, 43, 30),
      HMS(17, 43, 59), HMS(17, 44, 0), HMS(17, 44, 30), HMS(17, 45, 0),
      HMS(22, 0, 0), HMS(22, 27, 59), HMS(22, 28, 0), HMS(22, 28, 30),
      HMS(22, 28, 59), HMS(22, 29, 0), HMS(22, 29, 30), HMS(22, 30, 0) }

\* The state of Init at one of the given instants.
InitAt(instants) ==
    /\ now \in instants
    /\ user_data = [u \in Users |-> EmptyUserData]
    /\ conv = [u \in Users |-> END]
    /\ jobs = <<>>
    /\ websockets = [u \in Users |-> NoConn]
    /\ conns = [c \in ConnIds |-> FreeConn]
    /\ out = NoOut
    /\ inflight = [s \in Slots |-> Idle]
    /\ page = [u \in Users |-> "none"]

NextWarning ==
    \/ \E u \in Users : Sequential(Start(u))
    \/ \E u \in Users : Sequential(StartWork(u))
    \/ \E u \in Users : Sequential(StartToiletBreak(u))
    \/ \E u \in Users : Sequential(StartEatBreak(u))
    \/ \E u \in Users : Sequential(StartRestBreak(u))
    \/ \E u \in Users : Sequential(EndBreak(u))

SpecWarning == InitAt(WarningInstants) /\ [][NextWarning]_vars

----------------------------------------------------------------------------
(* The monitoring channels on their own: the pages of two users connect,   *)
(* reconnect, send frames and go away in any order, one websocket_handler  *)
(* task per connection.                                                    *)

InitWs ==
    /\ now = PointAt(0)
    /\ user_data = [u \in Users |-> EmptyUserData]
    /\ conv = [u \in Users |-> END]
    /\ jobs = <<>>
    /\ websockets = [u \in WsUsers |-> NoConn]
    /\ conns = [c \in WsConnIds |-> FreeConn]
    /\ out = NoOut
    /\ inflight = [s \in Slots |-> Idle]
    /\ page = [u \in Users |-> "none"]

NextWs ==
    \/ \E u \in WsUsers : Sequential(WsConnectIn(WsConnIds, u))
    \/ \E c \in WsConnIds, f \in Frames : Sequential(WsReceive(c, f))
    \/ \E c \in WsConnIds : Sequential(WsPeerClose(c))
    \/ \E c \in WsConnIds : Sequential(WsHandlerExit(c))

SpecWs == InitWs /\ [][NextWs]_vars

----------------------------------------------------------------------------
(* Break starts driven concurrently: the handler coroutines of             *)
(* handlers/breaks.py called for one user without waiting for each other.  *)
(* A call runs its tests and reads its counter, then awaits the send of    *)
(* PAUSE_MONITORING; the await gives way to other calls only when there is *)
(* a socket to send to.  The writes follow when the call is resumed.       *)

BreakInstants == { HMS(11, 5, 0), HMS(16, 15, 0), HMS(22, 0, 0) }

\* The tests of a break start: _validate_break_start, the quota, the window.
BreakStartCheck(ud, type) ==
    IF ValidateBreakStart(ud) # "ok" THEN ValidateBreakStart(ud)
    ELSE IF QuotaReached(Taken(ud, type), MaxCount(type)) THEN "quota"
    ELSE IF type = "eat" /\ ~InEatWindow(now) THEN "window"
    ELSE IF type = "rest" /\ ~InRestWindow(now) THEN "window"
    ELSE "ok"

\* The delay schedule_warning is called with, NoDelay when it is not called.
WarningDelay(type) ==
    IF type = "toilet" THEN TOILET_BREAK_LIMIT_SECONDS - 60
    ELSE LET remaining_seconds ==
                 (IF type = "eat" THEN EatWindowEnd(now)
                  ELSE RestWindowEnd(now)) - now
         IN  IF WarningArmed(remaining_seconds) THEN remaining_seconds - 60
             ELSE NoDelay

\* The statements after "await send_ws_command": the writes with the
\* counter value read before the await, the warning, the reply.
BreakStartWrites(u, type, taken) ==
    /\ user_data' = [user_data EXCEPT ![u] =
           BreakStarted(user_data[u], type, CounterOf(type), taken)]
    /\ jobs' = IF WarningDelay(type) = NoDelay THEN jobs
               ELSE ScheduleWarning(jobs, u, WarningDelay(type), type)
    /\ out' = [Reply(type, u, "started")
                  EXCEPT !.btype = type,
                         !.delay = WarningDelay(type),
                         !.effects =
                             BreakStartEffects(WarningDelay(type) # NoDelay),
                         !.sent = SendWsCommand(u, "PAUSE_MONITORING")]
    /\ conv' = [conv EXCEPT ![u] = ON_BREAK]
    /\ UNCHANGED <<now, websockets, conns>>

\* A break command is dispatched to its handler in slot s: denied, or run
\* to its end when there is no socket, or suspended in the send.
BeginBreak(s, u, type) ==
    /\ inflight[s] = Idle
    /\ conv[u] = SELECTING_ACTION
    /\ LET ud == user_data[u]
       IN  IF BreakStartCheck(ud, type) # "ok"
           THEN /\ Denied(u, type, BreakStartCheck(ud, type))
                /\ UNCHANGED inflight
           ELSE IF websockets[u] = NoConn
           THEN /\ BreakStartWrites(u, type, Taken(ud, type))
                /\ UNCHANGED inflight
           ELSE /\ inflight' = [inflight EXCEPT ![s] =
                      [user |-> u, type |-> type, taken |-> Taken(ud, type)]]
                /\ out' = NoOut
                /\ UNCHANGED <<now, user_data, conv, jobs, websockets, conns>>
    /\ UNCHANGED page

\* The send has returned (or raised and was caught): the call goes on.
ResumeBreak(s) ==
    /\ inflight[s] # Idle
    /\ BreakStartWrites(inflight[s].user, inflight[s].type, inflight[s].taken)
    /\ inflight' = [inflight EXCEPT ![s] = Idle]
    /\ UNCHANGED page

NextConcurrent ==
    \/ \E u \in Users : Sequential(Start(u))
    \/ \E u \in Users : Sequential(StartWork(u))
    \/ \E u \in Users : Sequential(WsConnect(u))
    \/ \E s \in Slots, u \in Users, type \in BreakTypes : BeginBreak(s, u, type)
    \/ \E s \in Slots : ResumeBreak(s)

SpecConcurrent == InitAt(BreakInstants) /\ [][NextConcurrent]_vars

----------------------------------------------------------------------------
(* The frames seen by the page: the session handlers, one update at a      *)
(* time, with a page that connects before clock-in; page holds the last    *)
(* frame the page of each user received since it connected.                *)

\* Step A, after which the page has received what A sent.
Observed(A) ==
    /\ A
    /\ page' = IF out'.sent # <<>>
               THEN [page EXCEPT ![out'.user] = out'.sent[Len(out'.sent)]]
               ELSE page
    /\ UNCHANGED inflight

\* The page of a user who has not clocked in opens its socket.
ConnectBeforeClockIn(u) ==
    /\ ~user_data[u].work_started
    /\ WsConnect(u)
    /\ page' = [page EXCEPT ![u] = "none"]
    /\ UNCHANGED inflight

NextSignals ==
    \/ \E u \in Users : Observed(Start(u))
    \/ \E u \in Users : Observed(StartWork(u))
    \/ \E u \in Users : Observed(OffWork(u))
    \/ \E u \in Users : Observed(ConfirmOffWork(u))
    \/ \E u \in Users : Observed(CancelOffWork(u))
    \/ \E u \in Users : Observed(StartToiletBreak(u))
    \/ \E u \in Users : Observed(StartEatBreak(u))
    \/ \E u \in Users : Observed(StartRestBreak(u))
    \/ \E u \in Users : Observed(EndBreak(u))
    \/ \E u \in Users : ConnectBeforeClockIn(u)
    \/ \E c \in ConnIds : Observed(WsHandlerExit(c))

SpecSignals == InitAt(BreakInstants) /\ [][NextSignals]_vars

----------------------------------------------------------------------------
(* Replies that fail: the handlers of handlers/breaks.py await reply_text  *)
(* as their last statement, after their writes and outside any try.  When  *)
(* the call raises, the handler does not return and the conversation       *)
(* keeps its state, while what was written stays written.                  *)

\* A break start whose tests pass and whose reply_text raises.
BreakStartReplyFails(u, type) ==
    /\ conv[u] = SELECTING_ACTION
    /\ BreakStartCheck(user_data[u], type) = "ok"
    /\ user_data' = [user_data EXCEPT ![u] =
           BreakStarted(user_data[u], type, CounterOf(type),
                        Taken(user_data[u], type))]
    /\ jobs' = IF WarningDelay(type) = NoDelay THEN jobs
               ELSE ScheduleWarning(jobs, u, WarningDelay(type), type)
    /\ out' = [Reply(type, u, "reply_failed")
                  EXCEPT !.btype = type,
                         !.delay = WarningDelay(type),
                         !.sent = SendWsCommand(u, "PAUSE_MONITORING")]
    /\ UNCHANGED <<now, conv, websockets, conns>>

\* An end of a recorded break whose reply_text raises.
EndBreakReplyFails(u) ==
    /\ conv[u] = ON_BREAK
    /\ user_data[u].break_start_time # NoTime
    /\ user_data[u].current_break_type # NoType
    /\ jobs' = RemovePreviousJob(jobs, u)
    /\ user_data' = [user_data EXCEPT ![u].on_break = FALSE,
                                       ![u].break_start_time = NoTime,
                                       ![u].current_break_type = NoType]
    /\ out' = [Reply("end_break", u, "reply_failed")
                  EXCEPT !.btype = user_data[u].current_break_type,
                         !.duration = now - user_data[u].break_start_time,
                         !.removed = Len(jobs) - Len(RemovePreviousJob(jobs, u)),
                         !.sent = SendWsCommand(u, "RESUME_MONITORING")]
    /\ UNCHANGED <<now, conv, websockets, conns>>

NextTransport ==
    \/ \E u \in Users : Sequential(Start(u))
    \/ \E u \in Users : Sequential(StartWork(u))
    \/ \E u \in Users : Sequential(OffWork(u))
    \/ \E u \in Users : Sequential(ConfirmOffWork(u))
    \/ \E u \in Users : Sequential(CancelOffWork(u))
    \/ \E u \in Users : Sequential(StartToiletBreak(u))
    \/ \E u \in Users : Sequential(StartEatBreak(u))
    \/ \E u \in Users : Sequential(StartRestBreak(u))
    \/ \E u \in Users : Sequential(EndBreak(u))
    \/ \E u \in Users, type \in BreakTypes :
          Sequential(BreakStartReplyFails(u, type))
    \/ \E u \in Users : Sequential(EndBreakReplyFails(u))

SpecTransport == InitAt(BreakInstants) /\ [][NextTransport]_vars

----------------------------------------------------------------------------
(* Shorthands of the properties *)

TimeOfDay(t) == t % DaySeconds

JobsOf(u) == { i \in 1..Len(jobs) : jobs[i].name = u }

\* The step that is being taken handles command cmd of user u.
Handles(u, cmd) == out'.user = u /\ out'.cmd = cmd

\* The delay of the warning a break start at time t arms: 540 s for a
\* toilet break; for an eat or rest break the time left to one minute
\* before the end of its window, and no warning within the last minute.
EatEnd == HMS(22, 30, 0)
RestEnd == HMS(17, 45, 0)
ArmedDelay(type, t) ==
    IF type = "toilet" THEN 540
    ELSE LET left == (IF type = "eat" THEN EatEnd ELSE RestEnd) - TimeOfDay(t)
         IN  IF left > 60 THEN left - 60 ELSE NoDelay

\* The window of the break type is open at time t (toilet: always).
WindowOpen(type, t) ==
    \/ type = "toilet"
    \/ type = "eat" /\ HMS(22, 0, 0) <= TimeOfDay(t) /\ TimeOfDay(t) <= EatEnd
    \/ type = "rest" /\ HMS(16, 15, 0) <= TimeOfDay(t)
                     /\ TimeOfDay(t) <= RestEnd

\* The jobs of other users, in their order.
JobsOfOthers(u) == SelectSeq(jobs, LAMBDA j : j.name # u)

\* A handler that only replied: nothing of the session, the job queue or
\* the monitoring channel moved, and the conversation is in state st.
OnlyReplied(u, st) ==
    /\ UNCHANGED <<now, user_data, jobs, websockets, conns>>
    /\ out'.sent = <<>>
    /\ out'.delay = NoDelay
    /\ out'.removed = 0
    /\ conv' = [conv EXCEPT ![u] = st]

----------------------------------------------------------------------------
\* C1: a break start over the quota (7th toilet, 2nd eat, 2nd rest break) of
\* a working user who is not on break is denied for the quota and changes
\* nothing: counters, break fields, jobs and channel are as before, no frame
\* is sent, and the conversation stays in SELECTING_ACTION.
C1_QuotaDenialChangesNothing ==
    [][ \A u \in Users, type \in BreakTypes :
          ( /\ Handles(u, type)
            /\ user_data[u].work_started
            /\ ~user_data[u].on_break
            /\ Taken(user_data[u], type) >= MaxCount(type) )
          => ( /\ out'.result = "quota"
               /\ OnlyReplied(u, SELECTING_ACTION) ) ]_vars

\* A second eat break is asked for inside the eat window and denied.
C1_Witness ==
    \E u \in Users :
        /\ out.user = u /\ out.cmd = "eat" /\ out.result = "quota"
        /\ user_data[u].eat_breaks_today = MAX_EAT_BREAKS
        /\ InEatWindow(now)
        /\ conv[u] = SELECTING_ACTION

\* C2: in every reachable state the counters respect the quotas.
C2_CountersWithinQuota ==
    \A u \in Users :
        /\ user_data[u].toilet_breaks_today <= MAX_TOILET_BREAKS
        /\ user_data[u].eat_breaks_today <= MAX_EAT_BREAKS
        /\ user_data[u].rest_breaks_today <= MAX_REST_BREAKS

\* Every quota is used up and a further toilet break has just been denied.
C2_Witness ==
    \E u \in Users :
        /\ user_data[u].toilet_breaks_today = MAX_TOILET_BREAKS
        /\ user_data[u].eat_breaks_today = MAX_EAT_BREAKS
        /\ user_data[u].rest_breaks_today = MAX_REST_BREAKS
        /\ out.user = u /\ out.cmd = "toilet" /\ out.result = "quota"

\* C3: for a working user, not on break, with quota left, an eat break
\* starts exactly when the time of day is in [22:00:00, 22:30:00] and a rest
\* break exactly when it is in [16:15:00, 17:45:00]; outside the window the
\* command is denied and changes nothing.
C3_WindowDecidesTimedBreak ==
    [][ \A u \in Users, type \in {"eat", "rest"} :
          ( /\ Handles(u, type)
            /\ user_data[u].work_started
            /\ ~user_data[u].on_break
            /\ Taken(user_data[u], type) < MaxCount(type) )
          => LET tod == TimeOfDay(now)
                 inside == IF type = "eat"
                           THEN HMS(22, 0, 0) <= tod /\ tod <= HMS(22, 30, 0)
                           ELSE HMS(16, 15, 0) <= tod /\ tod <= HMS(17, 45, 0)
             IN  IF inside
                 THEN /\ out'.result = "started"
                      /\ user_data'[u].on_break
                      /\ user_data'[u].current_break_type = type
                      /\ conv'[u] = ON_BREAK
                 ELSE /\ out'.result = "window"
                      /\ OnlyReplied(u, SELECTING_ACTION) ]_vars

\* An eat break has just started at 22:30:00, the last instant of the window.
C3_Witness ==
    \E u \in Users :
        /\ out.user = u /\ out.cmd = "eat" /\ out.result = "started"
        /\ TimeOfDay(now) = HMS(22, 30, 0)
        /\ user_data[u].on_break

\* C4: a break start of any type while the user is on break is denied and
\* leaves the active break, the counters and the pending warning job as
\* they are.
C4_DeniedWhileOnBreak ==
    [][ \A u \in Users, type \in BreakTypes :
          ( Handles(u, type) /\ user_data[u].on_break )
          => ( /\ out'.result = "on_break"
               /\ OnlyReplied(u, SELECTING_ACTION) ) ]_vars

\* On a toilet break with its warning pending, an eat break is asked for
\* inside the eat window with the eat quota unused, and denied.
C4_Witness ==
    \E u \in Users :
        /\ out.user = u /\ out.cmd = "eat" /\ out.result = "on_break"
        /\ user_data[u].on_break
        /\ user_data[u].current_break_type = "toilet"
        /\ user_data[u].eat_breaks_today = 0
        /\ InEatWindow(now)
        /\ JobsOf(u) # {}

\* C5: the scheduler keeps at most one pending warning per user at every
\* moment: schedule_warning removes every job under the user's name and
\* leaves exactly one, the job just armed, without touching the jobs of the
\* other users.
C5_OnePendingWarningPerUser ==
    [][ \A u \in JobUsers :
          /\ Cardinality(JobsOf(u))' <= 1
          /\ Handles(u, "arm")
             => /\ \E i \in 1..Len(jobs') :
                      /\ JobsOf(u)' = {i}
                      /\ jobs'[i] = [name |-> u,
                                     fire_at |-> now + out'.delay,
                                     message |-> out'.btype]
                /\ out'.removed = Cardinality(JobsOf(u))
                /\ SelectSeq(jobs', LAMBDA j : j.name # u)
                      = SelectSeq(jobs, LAMBDA j : j.name # u) ]_vars

\* A user is armed a second time in a row while the other user has a job:
\* the first job was removed and the one left is the eat warning just armed.
C5_Witness ==
    \E u \in JobUsers, v \in JobUsers :
        /\ u # v
        /\ out.user = u /\ out.cmd = "arm" /\ out.removed = 1
        /\ out.btype = "eat"
        /\ Cardinality(JobsOf(u)) = 1
        /\ Cardinality(JobsOf(v)) = 1
        /\ \E i \in JobsOf(u) : jobs[i].fire_at = now + EatWarningDelay

\* The same bound in the whole program: one pending warning per user.
OneJobPerUser == \A u \in Users : Cardinality(JobsOf(u)) <= 1

\* C6: once end_break or confirm_off_work has run for a user, no warning
\* job is pending for that user.
C6_NoWarningAfterEndOrCheckout ==
    \A u \in Users :
        (out.user = u /\ out.cmd \in {"end_break", "confirm"})
        => JobsOf(u) = {}

\* A toilet break is ended after its warning time (540 s) has passed with
\* the warning still in the queue: end_break removed it.
C6_Witness ==
    \E u \in Users :
        /\ out.user = u /\ out.cmd = "end_break" /\ out.result = "ended"
        /\ out.btype = "toilet"
        /\ out.duration >= TOILET_BREAK_LIMIT_SECONDS - 60
        /\ out.removed = 1
        /\ JobsOf(u) = {}

\* C7: off_work while on break is rejected: the session, the jobs and the
\* channel are unchanged, nothing is sent, and the conversation goes to
\* ON_BREAK, not to CONFIRM_OFF_WORK.
C7_OffWorkOnBreakRejected ==
    [][ \A u \in Users :
          ( Handles(u, "off_work") /\ user_data[u].on_break )
          => ( /\ out'.result = "still_on_break"
               /\ OnlyReplied(u, ON_BREAK)
               /\ conv'[u] # CONFIRM_OFF_WORK ) ]_vars

\* Off work has just been asked on a toilet break and rejected.
C7_Witness ==
    \E u \in Users :
        /\ out.user = u /\ out.cmd = "off_work"
        /\ out.result = "still_on_break"
        /\ user_data[u].on_break
        /\ user_data[u].current_break_type = "toilet"
        /\ conv[u] = ON_BREAK

\* C8: confirm_off_work sends STOP_MONITORING on the user's registered open
\* channel and closes it (a registered channel is closed afterwards, and
\* nothing is sent without one), empties the session and ends the
\* conversation; and a successful start_work leaves all counters 0 and the
\* user not on break.
C8_CheckoutStopsAndClears ==
    [][ \A u \in Users :
          /\ Handles(u, "confirm")
             => /\ IF websockets[u] = NoConn
                   THEN out'.sent = <<>> /\ UNCHANGED conns
                   ELSE /\ conns'[websockets[u]].st = "closed"
                        /\ conns[websockets[u]].st = "open"
                              => out'.sent = <<"STOP_MONITORING">>
                /\ user_data'[u] = EmptyUserData
                /\ conv'[u] = END
          /\ ( Handles(u, "start_work")
               /\ out'.result \in {"late", "on_time"} )
             => /\ user_data'[u].work_started
                /\ user_data'[u].toilet_breaks_today = 0
                /\ user_data'[u].eat_breaks_today = 0
                /\ user_data'[u].rest_breaks_today = 0
                /\ ~user_data'[u].on_break ]_vars

\* A work day of more than ten minutes has just been checked out with the
\* channel open: STOP_MONITORING went out, the channel is closed, the
\* session is empty.
C8_Witness ==
    \E u \in Users :
        /\ out.user = u /\ out.cmd = "confirm"
        /\ out.sent = <<"STOP_MONITORING">>
        /\ out.duration > TOILET_BREAK_LIMIT_SECONDS
        /\ websockets[u] # NoConn
        /\ conns[websockets[u]].st = "closed"
        /\ user_data[u] = EmptyUserData
        /\ conv[u] = END

\* C9: the report of an ended toilet break flags the break as over the
\* limit by (duration - 600 s) when the duration exceeds 600 s and flags
\* nothing otherwise.
C9_ToiletOverLimitFlagged ==
    \A u \in Users :
        ( out.user = u /\ out.cmd = "end_break" /\ out.result = "ended"
          /\ out.btype = "toilet" )
        => out.late_by = IF out.duration > TOILET_BREAK_LIMIT_SECONDS
                         THEN out.duration - TOILET_BREAK_LIMIT_SECONDS
                         ELSE 0

\* C10: a successful start_work reports late exactly when the time of day
\* is after 11:00:00, by the time passed since 11:00:00 of that day, and on
\* time otherwise.
C10_LateAfterEleven ==
    \A u \in Users :
        ( out.user = u /\ out.cmd = "start_work"
          /\ out.result # "already_started" )
        => LET tod == TimeOfDay(now)
           IN  /\ user_data[u].work_start_time = now
               /\ IF tod > HMS(11, 0, 0)
                  THEN /\ out.result = "late"
                       /\ out.late_by = tod - HMS(11, 0, 0)
                  ELSE /\ out.result = "on_time"
                       /\ out.late_by = 0

\* Clock-in at 11:05:00: late by 300 seconds.
C10_Witness ==
    \E u \in Users :
        /\ out.user = u /\ out.cmd = "start_work" /\ out.result = "late"
        /\ TimeOfDay(now) = HMS(11, 5, 0)
        /\ out.late_by = 5 * 60

----------------------------------------------------------------------------
\* C11: the monitoring frames are best effort.  Whatever the channel of the
\* user is (none registered, registered and open, registered and closed so
\* that the send raises), an allowed break start, an end of break and a
\* confirmed check-out make the same changes of the session, the same
\* changes of the warning jobs and return the same conversation state.
C11_SignalsBestEffort ==
    [][ \A u \in Users :
          /\ \A type \in BreakTypes :
                ( /\ Handles(u, type)
                  /\ user_data[u].work_started
                  /\ ~user_data[u].on_break
                  /\ Taken(user_data[u], type) < MaxCount(type)
                  /\ WindowOpen(type, now) )
                => /\ out'.result = "started"
                   /\ user_data'[u] =
                         [user_data[u] EXCEPT
                             !.on_break = TRUE,
                             !.break_start_time = now,
                             !.current_break_type = type,
                             ![CounterOf(type)] = @ + 1]
                   /\ jobs' = IF ArmedDelay(type, now) = NoDelay
                              THEN jobs
                              ELSE Append(JobsOfOthers(u),
                                     [name |-> u,
                                      fire_at |-> now + ArmedDelay(type, now),
                                      message |-> type])
                   /\ conv'[u] = ON_BREAK
                   /\ UNCHANGED <<websockets, conns>>
          /\ Handles(u, "end_break")
             => /\ user_data'[u] =
                      [user_data[u] EXCEPT !.on_break = FALSE,
                                           !.break_start_time = NoTime,
                                           !.current_break_type = NoType]
                /\ jobs' = JobsOfOthers(u)
                /\ conv'[u] = SELECTING_ACTION
                /\ UNCHANGED <<websockets, conns>>
          /\ Handles(u, "confirm")
             => /\ user_data'[u] = EmptyUserData
                /\ jobs' = jobs
                /\ conv'[u] = END
                /\ UNCHANGED websockets ]_vars

\* A toilet break has just started although the registered socket is
\* closed: no frame went out, the break and its warning are in place.
C11_Witness ==
    \E u \in Users :
        /\ out.user = u /\ out.cmd = "toilet" /\ out.result = "started"
        /\ out.sent = <<>>
        /\ websockets[u] # NoConn
        /\ conns[websockets[u]].st = "closed"
        /\ user_data[u].on_break
        /\ JobsOf(u) # {}
        /\ conv[u] = ON_BREAK

\* C12: on_break, break_start_time and current_break_type are set together
\* and cleared together: in every reachable state the user is on break
\* exactly when the start time is set and exactly when the type is set.
C12_BreakFieldsTogether ==
    \A u \in Users :
        /\ user_data[u].on_break <=> user_data[u].break_start_time # NoTime
        /\ user_data[u].on_break <=> user_data[u].current_break_type # NoType

\* A break has just been ended: the three fields are cleared, the counter
\* of the break stays.
C12_Witness ==
    \E u \in Users :
        /\ out.user = u /\ out.cmd = "end_break" /\ out.result = "ended"
        /\ ~user_data[u].on_break
        /\ user_data[u].break_start_time = NoTime
        /\ user_data[u].current_break_type = NoType
        /\ Taken(user_data[u], out.btype) > 0

\* C13: a break starts only while working.  Whoever is on break has
\* started work; a break command is handled only in SELECTING_ACTION (not
\* after a confirmed check-out, not while the confirmation is pending); and
\* a break command of a user who has not started work is denied for that
\* and changes nothing.
C13_BreakOnlyWhileWorking ==
    [][ \A u \in Users :
          /\ user_data'[u].on_break => user_data'[u].work_started
          /\ \A type \in BreakTypes :
                /\ Handles(u, type) => conv[u] = SELECTING_ACTION
                /\ ( Handles(u, type) /\ ~user_data[u].work_started )
                   => ( /\ out'.result = "not_working"
                        /\ OnlyReplied(u, SELECTING_ACTION) ) ]_vars

\* An eat break is asked for inside the eat window by a user who has not
\* started work, and is denied.
C13_Witness ==
    \E u \in Users :
        /\ out.user = u /\ out.cmd = "eat" /\ out.result = "not_working"
        /\ InEatWindow(now)
        /\ ~user_data[u].work_started
        /\ ~user_data[u].on_break
        /\ user_data[u].eat_breaks_today = 0

\* C14: start_work of a user who has already started work is rejected as
\* already started and changes nothing: work_start_time, the counters and
\* the break fields are as before.
C14_SecondStartWorkRejected ==
    [][ \A u \in Users :
          ( Handles(u, "start_work") /\ user_data[u].work_started )
          => ( /\ out'.result = "already_started"
               /\ OnlyReplied(u, SELECTING_ACTION) ) ]_vars

\* A second start_work after a break was taken, later than the first.
C14_Witness ==
    \E u \in Users :
        /\ out.user = u /\ out.cmd = "start_work"
        /\ out.result = "already_started"
        /\ user_data[u].work_start_time < now
        /\ user_data[u].toilet_breaks_today > 0

\* C15: cancelling the pending check-out only replies: the session, the
\* jobs and the channel are as before, no frame is sent, and the
\* conversation is back in SELECTING_ACTION, where the break and off-work
\* commands are handled.
C15_CancelKeepsSession ==
    [][ \A u \in Users :
          Handles(u, "cancel")
          => ( /\ conv[u] = CONFIRM_OFF_WORK
               /\ out'.result = "cancelled"
               /\ OnlyReplied(u, SELECTING_ACTION) ) ]_vars

\* A check-out is cancelled by a working user who has taken a break.
C15_Witness ==
    \E u \in Users :
        /\ out.user = u /\ out.cmd = "cancel"
        /\ conv[u] = SELECTING_ACTION
        /\ user_data[u].work_started
        /\ user_data[u].work_start_time < now
        /\ user_data[u].toilet_breaks_today > 0

\* C16: within every successful break start and every end of break the
\* side effects come in this order: policy check, monitoring frame, write
\* of the session, update of the warning scheduler, activity log, report.
EffectRank(e) ==
    CASE e = "check" -> 1
      [] e = "signal" -> 2
      [] e = "state" -> 3
      [] e = "schedule" -> 4
      [] e = "log" -> 5
      [] e = "report" -> 6

C16_EffectsInOrder ==
    ( out.result = "started" \/ out.cmd = "end_break" )
    => \A i, j \in 1..Len(out.effects) :
          i < j => EffectRank(out.effects[i]) < EffectRank(out.effects[j])

\* C17 as stated: a toilet break arms its warning 540 s ahead; an eat or
\* rest break arms it (end of window - now - 60) s ahead, and only if that
\* delay exceeds 60 s; otherwise no warning is armed.
C17_DelayArmedOverMinute ==
    \A u \in Users :
        ( out.user = u /\ out.result = "started" )
        => LET left == (IF out.btype = "eat" THEN EatEnd ELSE RestEnd)
                         - TimeOfDay(now)
           IN  out.delay = IF out.btype = "toilet" THEN 540
                           ELSE IF left - 60 > 60 THEN left - 60
                           ELSE NoDelay

\* C17, amended: a toilet break arms its warning 540 s ahead; an eat or
\* rest break arms it (end of window - now - 60) s ahead whenever more than
\* 60 s of the window are left, that is whenever that delay is positive;
\* with 60 s or less left no warning is armed.  The armed job is the only
\* job of the user and fires at now + delay.
C17_DelayArmedWhenPositive ==
    \A u \in Users :
        ( out.user = u /\ out.result = "started" )
        => /\ out.delay = ArmedDelay(out.btype, now)
           /\ IF out.delay = NoDelay
              THEN JobsOf(u) = {}
              ELSE /\ out.delay > 0
                   /\ \E i \in 1..Len(jobs) :
                         /\ JobsOf(u) = {i}
                         /\ jobs[i].fire_at = now + out.delay

\* An eat break started at 22:28:30, 90 s before the end of the window:
\* the warning is armed 30 s ahead.
C17_Witness ==
    \E u \in Users :
        /\ out.user = u /\ out.cmd = "eat" /\ out.result = "started"
        /\ TimeOfDay(now) = HMS(22, 28, 30)
        /\ out.delay = 30
        /\ \E i \in JobsOf(u) : jobs[i].fire_at = now + 30

\* C18: under any interleaving of connects, reconnects and disconnects, a
\* user who has an open channel is never left without an entry in the map,
\* and the entry is a channel of that user.
C18_OpenChannelHasEntry ==
    \A u \in WsUsers :
        ( \E c \in WsConnIds : conns[c].user = u /\ conns[c].st = "open" )
        => /\ websockets[u] # NoConn
           /\ conns[websockets[u]].user = u

C21_InboundFramesChangeNothing ==
    [][ \A u \in Users :
          Handles(u, "ws_frame")
          => /\ out'.result \in Frames
             /\ user_data'[u] = user_data[u]
             /\ conv'[u] = conv[u]
             /\ jobs' = jobs
             /\ UNCHANGED <<websockets, conns>>
             /\ out'.sent = <<>> ]_vars

\* An IDLE frame has just arrived from the page of a user who is on a
\* break with its warning pending.
C21_Witness ==
    \E u \in Users :
        /\ out.user = u /\ out.cmd = "ws_frame" /\ out.result = "IDLE"
        /\ user_data[u].on_break
        /\ user_data[u].toilet_breaks_today > 0
        /\ JobsOf(u) # {}
        /\ conv[u] = ON_BREAK

\* C22: after any sequence of commands handled by the registered handlers
\* the conversation is in ON_BREAK exactly when on_break is set; hence the
\* rejection of off_work for a user on break is never reached.
C22_OnBreakStateIffFlag ==
    \A u \in Users :
        /\ conv[u] = ON_BREAK <=> user_data[u].on_break
        /\ ~( out.user = u /\ out.cmd = "off_work"
              /\ out.result = "still_on_break" )

====
